---- MODULE Spec2Model ----
(***************************************************************************)
(* Model of scripts/anonymize_pdf.py: the replacement generator, the token *)
(* detector, the encoding transforms and the substitution engine.          *)
(*                                                                         *)
(* A Python str is a sequence of character codes (ord), so that the offset *)
(* cipher, the hex-literal codec and the regular expressions act on the    *)
(* same values as the code.  A literal is written as its codes, with the   *)
(* text in a comment.                                                      *)
(***************************************************************************)
EXTENDS Integers, Sequences, FiniteSets, Bags, TLC

VARIABLES
  pc,            \* position of the run: "start" or "done"
  used_names,    \* Set[str]: replacement names already issued
  counter,       \* Dict[str, int]: keys 'student' and 'teacher'
  returned,      \* history: bag of the strings the generator calls returned
  last_call,     \* history: the last generator call and its result
  text,          \* the decoded text given to detect_names_in_text
  replacements,  \* Dict[str, str] in insertion order: sequence of <<real, fake>>
  content,       \* the content stream given to anonymize_text_content
  result,        \* the content stream it returned
  rewrites,      \* history: <<i, j>> when entry j substituted text written by entry i
  plain,         \* the string given to the cipher
  coded,         \* the string after the transforms in ops
  ops            \* the transforms applied to plain, in order

vars == <<pc, used_names, counter, returned, last_call, text, replacements,
          content, result, rewrites, plain, coded, ops>>

----------------------------------------------------------------------------
(* Bounds *)

MaxCalls == 30      \* generator calls in one session
MaxPieces == 3      \* pieces of text joined into one detection text
MaxNames == 2       \* pieces of the text a mapping is detected from
MaxChunks == 2      \* chunks joined into one content stream
MaxCipherLen == 1   \* characters of a string given to the cipher
MaxOps == 2         \* transforms applied to one string
MaxRepeats == 18    \* detections of one student in one detection text

----------------------------------------------------------------------------
(* Strings *)

Min(S) == CHOOSE x \in S : \A y \in S : x <= y

\* " " * n
Spaces(n) == [i \in 1..n |-> 32]

\* "X" * n
Xs(n) == [i \in 1..n |-> 88]

\* s[:n]
Prefix(s, n) == SubSeq(s, 1, IF n < Len(s) THEN n ELSE Len(s))

\* f"{a} {b}"
WithSpace(a, b) == a \o <<32>> \o b

RECURSIVE Digits(_)
\* str(n) for n >= 0
Digits(n) == IF n < 10 THEN <<48 + n>> ELSE Digits(n \div 10) \o <<48 + (n % 10)>>

\* f"{n:0{width}d}"
ZeroPad(n, width) ==
  LET d == Digits(n)
  IN  IF Len(d) >= width THEN d ELSE [i \in 1..(width - Len(d)) |-> 48] \o d

----------------------------------------------------------------------------
(* Fixture vocabularies *)

TEACHER_FIXTURES ==
  << <<65, 108, 112, 104, 97>>,   \* "Alpha"
     <<66, 114, 97, 118, 111>>,   \* "Bravo"
     <<67, 104, 97, 114, 108, 105, 101>>,   \* "Charlie"
     <<68, 101, 108, 116, 97>>,   \* "Delta"
     <<69, 99, 104, 111>>,   \* "Echo"
     <<70, 111, 120, 116, 114, 111, 116>>,   \* "Foxtrot"
     <<71, 111, 108, 102>>,   \* "Golf"
     <<72, 111, 116, 101, 108>>,   \* "Hotel"
     <<73, 110, 100, 105, 97>>,   \* "India"
     <<74, 117, 108, 105, 101, 116>>,   \* "Juliet"
     <<75, 105, 108, 111>>,   \* "Kilo"
     <<76, 105, 109, 97>>,   \* "Lima"
     <<77, 105, 107, 101>>,   \* "Mike"
     <<78, 111, 118, 101, 109, 98, 101, 114>>,   \* "November"
     <<79, 115, 99, 97, 114>>,   \* "Oscar"
     <<80, 97, 112, 97>>,   \* "Papa"
     <<81, 117, 101, 98, 101, 99>>,   \* "Quebec"
     <<82, 111, 109, 101, 111>>,   \* "Romeo"
     <<83, 105, 101, 114, 114, 97>>,   \* "Sierra"
     <<84, 97, 110, 103, 111>>,   \* "Tango"
     <<85, 110, 105, 102, 111, 114, 109>>,   \* "Uniform"
     <<86, 105, 99, 116, 111, 114>>,   \* "Victor"
     <<87, 104, 105, 115, 107, 101, 121>>,   \* "Whiskey"
     <<88, 45, 114, 97, 121>>,   \* "X-ray"
     <<89, 97, 110, 107, 101, 101>>,   \* "Yankee"
     <<90, 117, 108, 117>> >>   \* "Zulu"

FIRST_NAMES ==
  << <<84, 101, 115, 116>>,   \* "Test"
     <<83, 97, 109, 112, 108, 101>>,   \* "Sample"
     <<68, 101, 109, 111>>,   \* "Demo"
     <<77, 111, 99, 107>>,   \* "Mock"
     <<70, 105, 120, 116, 117, 114, 101>>,   \* "Fixture"
     <<69, 120, 97, 109, 112, 108, 101>>,   \* "Example"
     <<80, 108, 97, 99, 101, 104, 111, 108, 100, 101, 114>>,   \* "Placeholder"
     <<83, 112, 101, 99, 105, 109, 101, 110>>,   \* "Specimen"
     <<77, 111, 100, 101, 108>>,   \* "Model"
     <<73, 110, 115, 116, 97, 110, 99, 101>>,   \* "Instance"
     <<67, 97, 115, 101>>,   \* "Case"
     <<84, 114, 105, 97, 108>> >>   \* "Trial"

LAST_NAMES ==
  << <<68, 97, 116, 97>>,   \* "Data"
     <<85, 115, 101, 114>>,   \* "User"
     <<80, 101, 114, 115, 111, 110>>,   \* "Person"
     <<83, 116, 117, 100, 101, 110, 116>>,   \* "Student"
     <<83, 117, 98, 106, 101, 99, 116>>,   \* "Subject"
     <<69, 110, 116, 105, 116, 121>>,   \* "Entity"
     <<82, 101, 99, 111, 114, 100>>,   \* "Record"
     <<69, 110, 116, 114, 121>>,   \* "Entry"
     <<73, 116, 101, 109>>,   \* "Item"
     <<79, 98, 106, 101, 99, 116>>,   \* "Object"
     <<69, 108, 101, 109, 101, 110, 116>>,   \* "Element"
     <<85, 110, 105, 116>> >>   \* "Unit"

STUDENT_WORD == <<83, 116, 117, 100, 101, 110, 116>>   \* "Student"
TEACHER_WORD == <<84, 101, 97, 99, 104, 101, 114>>   \* "Teacher"

----------------------------------------------------------------------------
(* Replacement generator *)

\* the k-th candidate f"{first} {last}" of the nested loops, k in 0..143
Candidate(k) ==
  WithSpace(FIRST_NAMES[(k \div Len(LAST_NAMES)) + 1], LAST_NAMES[(k % Len(LAST_NAMES)) + 1])

\* what one iteration of the loops offers for target_len: the candidate itself
\* when it has the length, the candidate padded when it is shorter, nothing
\* (the empty set) when it is longer
StudentOffer(k, target_len) ==
  LET candidate == Candidate(k)
  IN  IF Len(candidate) = target_len THEN {candidate}
      ELSE IF Len(candidate) < target_len
           THEN {candidate \o Spaces(target_len - Len(candidate))}
           ELSE {}

\* the counter-based fallback of generate_replacement_name
StudentFallback(target_len, used, cnt) ==
  LET idx  == cnt.student
      base == STUDENT_WORD \o ZeroPad(idx, 3)
      cnt2 == [cnt EXCEPT !.student = idx + 1]
  IN  IF Len(base) <= target_len
      THEN LET res == base \o Spaces(target_len - Len(base))
           IN  [result |-> res, used_names |-> used \cup {res}, counter |-> cnt2,
                tier |-> "counter"]
      ELSE [result |-> Xs(target_len), used_names |-> used, counter |-> cnt2,
            tier |-> "xfill"]

generate_replacement_name(original, used, cnt) ==
  LET target_len == Len(original)
      n    == Len(FIRST_NAMES) * Len(LAST_NAMES)
      hits == {k \in 0..(n - 1) : StudentOffer(k, target_len) \ used # {}}
  IN  IF hits # {}
      THEN LET k   == Min(hits)
               res == CHOOSE c \in StudentOffer(k, target_len) : TRUE
           IN  [result |-> res, used_names |-> used \cup {res}, counter |-> cnt,
                tier |-> IF Len(Candidate(k)) = target_len THEN "exact" ELSE "padded"]
      ELSE StudentFallback(target_len, used, cnt)

\* mutant of TeacherShape: a longer fixture is not truncated
TeacherShapeNoTruncate(fixture, surname_len) ==
  IF Len(fixture) < surname_len
  THEN fixture \o Spaces(surname_len - Len(fixture))
  ELSE fixture

\* the fixture surname shaped to surname_len: itself, padded or truncated
TeacherShape(fixture, surname_len) ==
  IF Len(fixture) = surname_len THEN fixture
  ELSE IF Len(fixture) < surname_len
       THEN fixture \o Spaces(surname_len - Len(fixture))
       ELSE Prefix(fixture, surname_len)

\* the numbered fallback of generate_teacher_name
TeacherFallback(title, surname_len, used, cnt) ==
  LET idx     == cnt.teacher
      fixture == TEACHER_WORD \o ZeroPad(idx, 2)
      shaped  == IF Len(fixture) <= surname_len
                 THEN fixture \o Spaces(surname_len - Len(fixture))
                 ELSE Prefix(fixture, surname_len)
      res     == WithSpace(title, shaped)
  IN  [result |-> res, used_names |-> used \cup {res},
       counter |-> [cnt EXCEPT !.teacher = idx + 1], tier |-> "counter"]

generate_teacher_name(title, surname, used, cnt) ==
  LET original    == WithSpace(title, surname)
      target_len  == Len(original)
      title_len   == Len(title)
      surname_len == target_len - title_len - 1
      cand(i)     == WithSpace(title, TeacherShape(TEACHER_FIXTURES[i], surname_len))
      hits        == {i \in 1..Len(TEACHER_FIXTURES) : cand(i) \notin used}
  IN  IF hits # {}
      THEN LET i == Min(hits)
           IN  [result |-> cand(i), used_names |-> used \cup {cand(i)}, counter |-> cnt,
                tier |-> IF Len(TEACHER_FIXTURES[i]) = surname_len THEN "exact"
                         ELSE IF Len(TEACHER_FIXTURES[i]) < surname_len THEN "padded"
                         ELSE "truncated"]
      ELSE TeacherFallback(title, surname_len, used, cnt)

----------------------------------------------------------------------------
(* States of the parts a specification does not exercise *)

NoCall == [fn |-> "none", target_len |-> 0, result |-> <<>>, tier |-> "none"]

FreshRegistry == used_names = {} /\ counter = [student |-> 0, teacher |-> 0]
NoHistory     == returned = EmptyBag /\ last_call = NoCall
NoDetection   == text = <<>> /\ replacements = <<>>
NoSubst       == content = <<>> /\ result = <<>> /\ rewrites = {}
NoCipher      == plain = <<>> /\ coded = <<>> /\ ops = <<>>

----------------------------------------------------------------------------
(* A session of generator calls sharing one registry and one counter map *)

MR   == <<77, 114>>          \* "Mr"
MS   == <<77, 115>>          \* "Ms"
MRS  == <<77, 114, 115>>     \* "Mrs"
MISS == <<77, 105, 115, 115>>   \* "Miss"

GenOriginals ==
  { <<66, 111, 98>>,                                        \* "Bob"
    <<65, 110, 110, 97, 32, 66, 101, 108, 108, 115>> }      \* "Anna Bells"

GenTitles == { MR }

GenSurnames == { <<74, 32, 83, 109, 105, 116, 104>> }       \* "J Smith"

InitGen ==
  /\ pc = "start"
  /\ FreshRegistry /\ NoHistory /\ NoDetection /\ NoSubst /\ NoCipher

CallGenerateReplacementName ==
  /\ BagCardinality(returned) < MaxCalls
  /\ \E original \in GenOriginals :
       LET r == generate_replacement_name(original, used_names, counter)
       IN  /\ used_names' = r.used_names
           /\ counter' = r.counter
           /\ returned' = returned (+) SetToBag({r.result})
           /\ last_call' = [fn |-> "replacement", target_len |-> Len(original),
                            result |-> r.result, tier |-> r.tier]
  /\ UNCHANGED <<pc, text, replacements, content, result, rewrites, plain, coded, ops>>

CallGenerateTeacherName ==
  /\ BagCardinality(returned) < MaxCalls
  /\ \E title \in GenTitles, surname \in GenSurnames :
       LET r == generate_teacher_name(title, surname, used_names, counter)
       IN  /\ used_names' = r.used_names
           /\ counter' = r.counter
           /\ returned' = returned (+) SetToBag({r.result})
           /\ last_call' = [fn |-> "teacher",
                            target_len |-> Len(title) + 1 + Len(surname),
                            result |-> r.result, tier |-> r.tier]
  /\ UNCHANGED <<pc, text, replacements, content, result, rewrites, plain, coded, ops>>

NextGen == CallGenerateReplacementName \/ CallGenerateTeacherName

SpecGen == InitGen /\ [][NextGen]_vars

----------------------------------------------------------------------------
(* Character classes of Python's re on str, for the codes 0..255 *)

UPPER == 65..90                                             \* [A-Z]
LOWER == 97..122                                            \* [a-z]
DIGIT == 48..57                                             \* \d
SPACE == (9..13) \cup (28..32) \cup {133, 160}              \* \s, str.isspace
WORD  == (48..57) \cup (65..90) \cup {95} \cup (97..122) \cup {170, 178, 179, 181, 185, 186}
           \cup (188..190) \cup (192..214) \cup (216..246) \cup (248..255)   \* \w
ISDIGIT == (48..57) \cup {178, 179, 185}                    \* str.isdigit

\* the end of the longest run of characters of class S that starts at i:
\* the first position from i on that holds no character of S
RunEnd(t, i, S) == Min({j \in i..(Len(t) + 1) : j = Len(t) + 1 \/ t[j] \notin S})

\* t has a character of class S at position i
At(t, i, S) == i >= 1 /\ i <= Len(t) /\ t[i] \in S

\* \b between positions i-1 and i
WordBoundary(t, i) == At(t, i - 1, WORD) # At(t, i, WORD)

\* t holds w at position i
StartsWith(t, i, w) == i + Len(w) - 1 <= Len(t) /\ SubSeq(t, i, i + Len(w) - 1) = w

\* s.lower() for ASCII letters
Lower(s) == [i \in 1..Len(s) |-> IF s[i] \in UPPER THEN s[i] + 32 ELSE s[i]]

NoMatch == [end |-> 0]

----------------------------------------------------------------------------
(* The three patterns of detect_names_in_text.  Each matcher gives the     *)
(* match of the pattern that starts at position i, with its groups and the *)
(* position after it, or NoMatch.  Greedy repetition with backtracking is  *)
(* resolved: a repetition followed by a character outside its class can    *)
(* only end where the run of its class ends.                               *)

TITLES == <<MR, MS, MRS, MISS>>                             \* (Mr|Ms|Mrs|Miss)

STOPLIST ==
  { <<119, 101, 101, 107>>,              \* "week"
    <<112, 97, 103, 101>>,               \* "page"
    <<102, 111, 114, 109>>,              \* "form"
    <<114, 111, 111, 109>>,              \* "room"
    <<108, 101, 115, 115, 111, 110>> }   \* "lesson"

\* \s+([A-Z])\s+([A-Z][a-z]{3,})\b at position j, after the title
TeacherRest(t, j, title) ==
  LET a == RunEnd(t, j, SPACE)            \* the initial
      b == RunEnd(t, a + 1, SPACE)        \* the surname
      e == RunEnd(t, b + 1, LOWER)
  IN  IF /\ a > j /\ At(t, a, UPPER)
         /\ b > a + 1 /\ At(t, b, UPPER)
         /\ e - (b + 1) >= 3
         /\ WordBoundary(t, e)
      THEN [end |-> e, title |-> title, initial |-> <<t[a]>>, surname |-> SubSeq(t, b, e - 1)]
      ELSE NoMatch

\* \b(Mr|Ms|Mrs|Miss)\s+([A-Z])\s+([A-Z][a-z]{3,})\b
TeacherMatchAt(t, i) ==
  LET ok == {n \in 1..Len(TITLES) :
               /\ StartsWith(t, i, TITLES[n])
               /\ TeacherRest(t, i + Len(TITLES[n]), TITLES[n]) # NoMatch}
  IN  IF WordBoundary(t, i) /\ ok # {}
      THEN TeacherRest(t, i + Len(TITLES[Min(ok)]), TITLES[Min(ok)])
      ELSE NoMatch

\* (\d{1,2}[A-Z]{1,3}) at position d, or with min_letters = 2: (\d{1,2}[A-Z]{2,3})
\* gives the position after the code, 0 when there is none
FormCodeEnd(t, d, min_letters) ==
  LET l == RunEnd(t, d, DIGIT)
      u == RunEnd(t, l, UPPER)
      e == IF u - l > 3 THEN l + 3 ELSE u
  IN  IF l - d >= 1 /\ l - d <= 2 /\ u - l >= min_letters THEN e ELSE 0

\* ([A-Z][a-z]{3,})\s+([A-Z][a-z]{3,})\s+\(?(\d{1,2}[A-Z]{1,3})\)?
StudentMatchAt(t, i) ==
  LET a == RunEnd(t, i + 1, LOWER)        \* after the first name
      b == RunEnd(t, a, SPACE)            \* the last name
      c == RunEnd(t, b + 1, LOWER)        \* after the last name
      p == RunEnd(t, c, SPACE)            \* the parenthesis or the form code
      d == IF At(t, p, {40}) THEN p + 1 ELSE p
      e == FormCodeEnd(t, d, 1)
  IN  IF /\ At(t, i, UPPER) /\ a - (i + 1) >= 3
         /\ b > a /\ At(t, b, UPPER) /\ c - (b + 1) >= 3
         /\ p > c /\ e # 0
      THEN [end |-> IF At(t, e, {41}) THEN e + 1 ELSE e,
            first_name |-> SubSeq(t, i, a - 1), last_name |-> SubSeq(t, b, c - 1),
            form_code |-> SubSeq(t, d, e - 1)]
      ELSE NoMatch

\* \b(\d{1,2}[A-Z]{2,3})\b
FormMatchAt(t, i) ==
  LET e == FormCodeEnd(t, i, 2)
  IN  IF /\ WordBoundary(t, i) /\ e # 0
         /\ RunEnd(t, RunEnd(t, i, DIGIT), UPPER) = e
         /\ WordBoundary(t, e)
      THEN [end |-> e, form_code |-> SubSeq(t, i, e - 1)]
      ELSE NoMatch

\* re.finditer: the matches from left to right, each search starting where
\* the previous match ended; kind selects the pattern
MatchAt(kind, t, i) ==
  CASE kind = "teacher" -> TeacherMatchAt(t, i)
    [] kind = "student" -> StudentMatchAt(t, i)
    [] kind = "form"    -> FormMatchAt(t, i)

RECURSIVE FindIter(_, _, _)
FindIter(kind, t, from) ==
  LET starts == {i \in from..Len(t) : MatchAt(kind, t, i) # NoMatch}
  IN  IF starts = {} THEN <<>>
      ELSE LET m == MatchAt(kind, t, Min(starts))
           IN  <<m>> \o FindIter(kind, t, m.end)

----------------------------------------------------------------------------
(* detect_names_in_text *)

\* replacements[key] = value on a dict kept in insertion order: a key already
\* present keeps its place and takes the new value
Put(m, key, value) ==
  IF \E i \in 1..Len(m) : m[i][1] = key
  THEN [i \in 1..Len(m) |-> IF m[i][1] = key THEN <<key, value>> ELSE m[i]]
  ELSE Append(m, <<key, value>>)

\* s.split(None, 1): the first word and, when something follows it, the rest
\* of the string after the whitespace, trailing whitespace included
SplitFirst(s) ==
  LET a == RunEnd(s, 1, SPACE)
      b == RunEnd(s, a, 0..255 \ SPACE)
      c == RunEnd(s, b, SPACE)
  IN  IF a > Len(s) THEN <<>>
      ELSE IF c > Len(s) THEN <<SubSeq(s, a, b - 1)>>
      ELSE <<SubSeq(s, a, b - 1), SubSeq(s, c, Len(s))>>

\* mutant of FormCodeReplacement: one 'X' per character of the code
FormCodeReplacementAllLetters(form_code) ==
  LET digit_part == SelectSeq(form_code, LAMBDA c : c \in ISDIGIT)
  IN  digit_part \o Xs(Len(form_code))

\* digit_part + 'X' * letter_count
FormCodeReplacement(form_code) ==
  LET digit_part   == SelectSeq(form_code, LAMBDA c : c \in ISDIGIT)
      letter_count == Len(form_code) - Len(digit_part)
  IN  digit_part \o Xs(letter_count)

\* the body of the teacher loop for one match; st is the state of the run:
\* the mapping, the registry and the counters
TeacherStep(st, match) ==
  LET title    == match.title
      initial  == match.initial
      surname  == match.surname
      original == WithSpace(title, WithSpace(initial, surname))
  IN  IF Lower(surname) \notin STOPLIST
      THEN LET r == generate_teacher_name(title, WithSpace(initial, surname),
                                          st.used_names, st.counter)
               fake_parts == SplitFirst(r.result)
           IN  [replacements |->
                  IF Len(fake_parts) = 2
                  THEN Put(st.replacements, original,
                           WithSpace(title, WithSpace(initial, fake_parts[2])))
                  ELSE st.replacements,
                used_names |-> r.used_names, counter |-> r.counter]
      ELSE st

\* the body of the student loop for one match
StudentStep(st, match) ==
  LET full_name == WithSpace(match.first_name, match.last_name)
      r == generate_replacement_name(full_name, st.used_names, st.counter)
  IN  [replacements |-> Put(Put(st.replacements, full_name, r.result),
                            match.form_code, FormCodeReplacement(match.form_code)),
       used_names |-> r.used_names, counter |-> r.counter]

\* the body of the form-code loop for one match
FormStep(st, match) ==
  [st EXCEPT !.replacements = Put(@, match.form_code, FormCodeReplacement(match.form_code))]

Step(kind, st, match) ==
  CASE kind = "teacher" -> TeacherStep(st, match)
    [] kind = "student" -> StudentStep(st, match)
    [] kind = "form"    -> FormStep(st, match)

RECURSIVE Loop(_, _, _, _)
\* for match in re.finditer(pattern, text): from the n-th match on
Loop(kind, st, matches, n) ==
  IF n > Len(matches) THEN st
  ELSE Loop(kind, Step(kind, st, matches[n]), matches, n + 1)

detect_names_in_text(t) ==
  LET st0 == [replacements |-> <<>>, used_names |-> {},
              counter |-> [student |-> 0, teacher |-> 0]]
      st1 == Loop("teacher", st0, FindIter("teacher", t, 1), 1)
      st2 == Loop("student", st1, FindIter("student", t, 1), 1)
  IN  Loop("form", st2, FindIter("form", t, 1), 1)

----------------------------------------------------------------------------
(* One run of the detector on a text *)

RECURSIVE JoinPieces(_)
\* the pieces of a text, separated by single spaces
JoinPieces(ps) ==
  IF Len(ps) = 0 THEN <<>>
  ELSE IF Len(ps) = 1 THEN ps[1]
  ELSE ps[1] \o <<32>> \o JoinPieces(Tail(ps))

SeqsUpTo(S, n) == UNION {[1..k -> S] : k \in 0..n}

TextPieces ==
  { <<77, 114, 32, 74, 32, 83, 109, 105, 116, 104>>,   \* "Mr J Smith"
    <<77, 114, 32, 74, 32, 65, 108, 112, 104, 97, 32, 32>>,   \* "Mr J Alpha  "
    <<77, 114, 32, 65, 32, 87, 101, 101, 107>>,   \* "Mr A Week"
    <<77, 105, 115, 115, 32, 32, 81, 32, 66, 114, 111, 119, 110>>,   \* "Miss  Q Brown"
    <<65, 109, 101, 108, 105, 97, 32, 83, 108, 97, 116, 101, 114, 32, 40, 49, 48, 65, 66, 41>>,   \* "Amelia Slater (10AB)"
    <<84, 101, 115, 116, 32, 68, 97, 116, 97, 32, 49, 48, 88, 88>>,   \* "Test Data 10XX"
    <<49, 48, 67, 68>>,   \* "10CD"
    <<57, 65, 66, 88>> }   \* "9ABX"

ANNA_BELL_7X == <<65, 110, 110, 97, 32, 66, 101, 108, 108, 32, 55, 88>>   \* "Anna Bell 7X"

\* a text where the student pattern finds the same student n times
Repeated(piece, n) == JoinPieces([k \in 1..n |-> piece])

RepeatedTexts == {Repeated(ANNA_BELL_7X, n) : n \in 1..MaxRepeats}

Texts == {JoinPieces(ps) : ps \in SeqsUpTo(TextPieces, MaxPieces)} \cup RepeatedTexts

InitDetect ==
  /\ pc = "start"
  /\ text \in Texts
  /\ replacements = <<>>
  /\ FreshRegistry /\ NoHistory /\ NoSubst /\ NoCipher

\* replacements = detect_names_in_text(text); the registry and the counters
\* are the function's locals at its return
Detect ==
  /\ pc = "start"
  /\ LET st == detect_names_in_text(text)
     IN  /\ replacements' = st.replacements
         /\ used_names' = st.used_names
         /\ counter' = st.counter
  /\ pc' = "done"
  /\ UNCHANGED <<returned, last_call, text, content, result, rewrites, plain, coded, ops>>

NextDetect == Detect

SpecDetect == InitDetect /\ [][NextDetect]_vars

----------------------------------------------------------------------------
(* Encoding transforms *)

\* mutant of EncodeCode: the subtraction without the wrap
EncodeCodeNoWrap(code) == code - 29

\* one character of encode_bromcom: (code - 29) % 256
EncodeCode(code) == (code - 29) % 256

\* one character of decode_bromcom: (code + 29) % 256
DecodeCode(code) == (code + 29) % 256

encode_bromcom(s) == [i \in 1..Len(s) |-> EncodeCode(s[i])]

decode_bromcom(s) == [i \in 1..Len(s) |-> DecodeCode(s[i])]

\* one digit of the format code X
HexDigit(n) == IF n < 10 THEN 48 + n ELSE 55 + n

\* f"{code:04X}", for a code below 16^4
Hex4(code) ==
  << HexDigit((code \div 4096) % 16), HexDigit((code \div 256) % 16),
     HexDigit((code \div 16) % 16), HexDigit(code % 16) >>

\* ''.join(f'{ord(c):04X}' for c in text)
HexCodes(s) == [k \in 1..(4 * Len(s)) |-> Hex4(s[((k - 1) \div 4) + 1])[((k - 1) % 4) + 1]]

\* "<" + hex_codes + ">"
text_to_pdf_hex(s) == <<60>> \o HexCodes(s) \o <<62>>

----------------------------------------------------------------------------
(* Substitution engine *)

\* content.decode('latin-1'): one character per byte, with the byte's value
Latin1Decode(bytes) == [i \in 1..Len(bytes) |-> bytes[i]]

\* mutant of Latin1Encode: an encoder that drops what is not ASCII
Latin1EncodeAscii(s) == SelectSeq(s, LAMBDA c : c <= 127)

\* text.encode('latin-1', errors='ignore'): characters above 255 are dropped
Latin1Encode(s) == SelectSeq(s, LAMBDA c : c <= 255)

\* s.replace(" ", "")
NoSpaces(s) == SelectSeq(s, LAMBDA c : c # 32)

RECURSIVE ReplaceFrom(_, _, _, _, _, _)
\* str.replace on the part of s from position p on: the occurrences of old
\* from left to right, none overlapping the one before.  s carries, as
\* history, the entry that wrote each character (owner, 0 for the given
\* content): the text written by this call is owned by entry j, and over
\* collects the owners of the characters it replaced.
ReplaceFrom(s, owner, p, old, new, j) ==
  LET starts == {q \in p..(Len(s) - Len(old) + 1) : SubSeq(s, q, q + Len(old) - 1) = old}
  IN  IF starts = {}
      THEN [text |-> SubSeq(s, p, Len(s)), owner |-> SubSeq(owner, p, Len(s)), over |-> {}]
      ELSE LET q == Min(starts)
               r == ReplaceFrom(s, owner, q + Len(old), old, new, j)
           IN  [text  |-> SubSeq(s, p, q - 1) \o new \o r.text,
                owner |-> SubSeq(owner, p, q - 1) \o [i \in 1..Len(new) |-> j] \o r.owner,
                over  |-> {owner[i] : i \in q..(q + Len(old) - 1)} \cup r.over]

\* str.replace of the empty string: new before every character and at the end
Interleave(s, owner, new, j) ==
  LET n   == Len(new)
      len == Len(s) * (n + 1) + n
  IN  [text  |-> [k \in 1..len |-> IF (k - 1) % (n + 1) < n
                                   THEN new[((k - 1) % (n + 1)) + 1]
                                   ELSE s[((k - 1) \div (n + 1)) + 1]],
       owner |-> [k \in 1..len |-> IF (k - 1) % (n + 1) < n
                                   THEN j
                                   ELSE owner[((k - 1) \div (n + 1)) + 1]],
       over  |-> {}]

\* text = text.replace(old, new), in the run of entry j; t is the text with
\* its history
Replace(t, old, new, j) ==
  LET r == IF old = <<>> THEN Interleave(t.text, t.owner, new, j)
           ELSE ReplaceFrom(t.text, t.owner, 1, old, new, j)
  IN  [text |-> r.text, owner |-> r.owner,
       rewrites |-> t.rewrites \cup {<<i, j>> : i \in r.over \ {0}}]

\* the search and replacement strings of the substitutions the loop body
\* makes for one entry, in the order of the code
Passes(real_name, fake_name) ==
  LET encoded_real == encode_bromcom(real_name)
      encoded_fake == encode_bromcom(fake_name)
  IN  << <<real_name, fake_name>>,
         <<encoded_real, encoded_fake>>,
         <<text_to_pdf_hex(real_name), text_to_pdf_hex(fake_name)>>,
         <<text_to_pdf_hex(encoded_real), text_to_pdf_hex(encoded_fake)>>,
         <<NoSpaces(real_name), NoSpaces(fake_name)>>,
         <<encode_bromcom(NoSpaces(real_name)), encode_bromcom(NoSpaces(fake_name))>>,
         <<text_to_pdf_hex(NoSpaces(real_name)), text_to_pdf_hex(NoSpaces(fake_name))>> >>

RECURSIVE ApplyPasses(_, _, _, _)
\* the body of the loop of anonymize_text_content for the j-th entry, from
\* its n-th substitution on, each on the text the one before left.  (The
\* test on the length has TLC evaluate a substitution before the next one.)
ApplyPasses(t, passes, n, j) ==
  IF n > Len(passes) THEN t
  ELSE LET t2 == Replace(t, passes[n][1], passes[n][2], j)
       IN  IF Len(t2.text) >= 0 THEN ApplyPasses(t2, passes, n + 1, j) ELSE t2

ApplyEntry(t, real_name, fake_name, j) == ApplyPasses(t, Passes(real_name, fake_name), 1, j)

RECURSIVE ApplyAll(_, _, _)
\* for real_name, fake_name in replacements.items(): from the j-th entry on
ApplyAll(t, m, j) ==
  IF j > Len(m) THEN t
  ELSE LET t2 == ApplyEntry(t, m[j][1], m[j][2], j)
       IN  IF Len(t2.text) >= 0 THEN ApplyAll(t2, m, j + 1) ELSE t2

anonymize_text_content(bytes, m) ==
  LET s == Latin1Decode(bytes)
      t == ApplyAll([text |-> s, owner |-> [i \in 1..Len(s) |-> 0], rewrites |-> {}], m, 1)
  IN  [result |-> Latin1Encode(t.text), rewrites |-> t.rewrites]

----------------------------------------------------------------------------
(* One call of anonymize_text_content on a content stream, with a mapping  *)
(* the detector returns                                                    *)

MR_J_SMITH    == <<77, 114, 32, 74, 32, 83, 109, 105, 116, 104>>   \* "Mr J Smith"
MR_J_ALPHA    == <<77, 114, 32, 74, 32, 65, 108, 112, 104, 97, 32, 32>>   \* "Mr J Alpha  "
AMELIA_SLATER == <<65, 109, 101, 108, 105, 97, 32, 83, 108, 97, 116, 101, 114>>   \* "Amelia Slater"
FORM_10AB     == <<49, 48, 65, 66>>   \* "10AB"
OPERATORS     == <<66, 84, 10, 0, 255>>   \* "BT\n\x00\xff"

\* the forms a string is stored in: plain, cipher, hex literal, hex literal
\* of the cipher, and the same four for the string without its spaces
Form(f, s) ==
  CASE f = 1 -> s
    [] f = 2 -> encode_bromcom(s)
    [] f = 3 -> text_to_pdf_hex(s)
    [] f = 4 -> text_to_pdf_hex(encode_bromcom(s))
    [] f = 5 -> NoSpaces(s)
    [] f = 6 -> encode_bromcom(NoSpaces(s))
    [] f = 7 -> text_to_pdf_hex(NoSpaces(s))
    [] f = 8 -> text_to_pdf_hex(encode_bromcom(NoSpaces(s)))

\* the texts the mappings are detected from
NamePieces ==
  { MR_J_SMITH, MR_J_ALPHA,
    AMELIA_SLATER \o <<32, 40>> \o FORM_10AB \o <<41>> }   \* "Amelia Slater (10AB)"

Mappings ==
  {detect_names_in_text(JoinPieces(ps)).replacements : ps \in SeqsUpTo(NamePieces, MaxNames)}

\* what a content stream is made of: a teacher name in each of its forms, a
\* student name plain, without spaces and as the hex literal of that, a form
\* code and bytes that are no text
Chunks ==
  {Form(f, MR_J_SMITH) : f \in 1..8} \cup {Form(f, AMELIA_SLATER) : f \in {1, 5, 7}}
    \cup {FORM_10AB, OPERATORS}

\* every byte value, alone in a content stream
SingleBytes == {<<b>> : b \in 0..255}

Contents == {JoinPieces(cs) : cs \in SeqsUpTo(Chunks, MaxChunks)} \cup SingleBytes

InitSubst ==
  /\ pc = "start"
  /\ replacements \in Mappings
  /\ content \in Contents
  /\ text = <<>> /\ result = <<>> /\ rewrites = {}
  /\ FreshRegistry /\ NoHistory /\ NoCipher

\* result = anonymize_text_content(content, replacements)
Anonymize ==
  /\ pc = "start"
  /\ LET r == anonymize_text_content(content, replacements)
     IN  /\ result' = r.result
         /\ rewrites' = r.rewrites
  /\ pc' = "done"
  /\ UNCHANGED <<used_names, counter, returned, last_call, text, replacements, content,
                 plain, coded, ops>>

NextSubst == Anonymize

SpecSubst == InitSubst /\ [][NextSubst]_vars

----------------------------------------------------------------------------
(* The offset cipher applied to a string, one transform after the other *)

CipherStrings == UNION {[1..k -> 0..255] : k \in 0..MaxCipherLen}

InitCipher ==
  /\ pc = "start"
  /\ plain \in CipherStrings
  /\ coded = plain
  /\ ops = <<>>
  /\ FreshRegistry /\ NoHistory /\ NoDetection /\ NoSubst

\* coded = encode_bromcom(coded)
Encode ==
  /\ Len(ops) < MaxOps
  /\ coded' = encode_bromcom(coded)
  /\ ops' = Append(ops, "encode")
  /\ UNCHANGED <<pc, used_names, counter, returned, last_call, text, replacements,
                 content, result, rewrites, plain>>

\* coded = decode_bromcom(coded)
Decode ==
  /\ Len(ops) < MaxOps
  /\ coded' = decode_bromcom(coded)
  /\ ops' = Append(ops, "decode")
  /\ UNCHANGED <<pc, used_names, counter, returned, last_call, text, replacements,
                 content, result, rewrites, plain>>

NextCipher == Encode \/ Decode

SpecCipher == InitCipher /\ [][NextCipher]_vars

----------------------------------------------------------------------------
(* Properties *)

Entries == {replacements[i] : i \in 1..Len(replacements)}

\* a teacher key ("Title Initial Surname") or a student key ("First Last");
\* a form code holds no space
IsNameKey(key) == \E p \in 1..Len(key) : key[p] = 32

FORM_10XX == <<49, 48, 88, 88>>   \* "10XX"
FORM_9ABX == <<57, 65, 66, 88>>   \* "9ABX"
FORM_9XXX == <<57, 88, 88, 88>>   \* "9XXX"
XXX       == <<88, 88, 88>>       \* "XXX"

\* C1: every entry of the mapping detect_names_in_text returns has a
\* replacement of the length of its original.
LengthInvariant ==
  pc = "done" => \A e \in Entries : Len(e[2]) = Len(e[1])

\* C2: no two distinct originals of the mapping detect_names_in_text returns
\* have the same replacement.
UniquenessInvariant ==
  pc = "done" => \A e1, e2 \in Entries : e1[1] # e2[1] => e1[2] # e2[2]

\* C3: content that holds one of the eight forms of an original, or two of
\* them side by side, is returned with each form of the original rewritten
\* to the same form of its replacement (stated for a mapping of one entry).
EightFormsRewritten ==
  (pc = "done" /\ Len(replacements) = 1) =>
    LET real == replacements[1][1]
        fake == replacements[1][2]
    IN  \A f, g \in 1..8 :
          /\ content = Form(f, real) => result = Form(f, fake)
          /\ content = Form(f, real) \o <<32>> \o Form(g, real)
               => result = Form(f, fake) \o <<32>> \o Form(g, fake)

\* C4: when every replacement has the length of its original, every
\* substitution replaces a string by one of the same length and the content
\* returned has the length of the content given.
SameLengthInEveryLayer ==
  (pc = "done" /\ \A e \in Entries : Len(e[2]) = Len(e[1])) =>
    /\ \A e \in Entries : \A n \in 1..Len(Passes(e[1], e[2])) :
         Len(Passes(e[1], e[2])[n][1]) = Len(Passes(e[1], e[2])[n][2])
    /\ Len(result) = Len(content)

\* C5: no entry substitutes text that another entry wrote as its replacement.
NotRecursive ==
  pc = "done" => \A rw \in rewrites : rw[1] = rw[2]

\* C6: decode_bromcom undoes encode_bromcom and encode_bromcom undoes
\* decode_bromcom, and every code stays in 0..255 on the way.
CipherRoundTrip ==
  /\ (ops = <<"encode", "decode">> \/ ops = <<"decode", "encode">>) => coded = plain
  /\ \A i \in 1..Len(coded) : coded[i] \in 0..255

\* a string with a code below 29 has been encoded (the subtraction wrapped)
\* and decoded again
CipherRoundTripWitness ==
  /\ ops = <<"encode", "decode">>
  /\ plain = <<10>>
  /\ coded = plain

\* C7: every call of generate_replacement_name and generate_teacher_name
\* returns a string of the target length.
GeneratedLength ==
  last_call.fn # "none" => Len(last_call.result) = last_call.target_len

\* the 'X' fill has been returned and the teacher vocabulary is exhausted:
\* the call that just returned took the numbered fallback
GeneratedLengthWitness ==
  /\ BagIn(XXX, returned)
  /\ last_call.fn = "teacher" /\ last_call.tier = "counter"
  /\ Len(last_call.result) = last_call.target_len

\* C8: a text made of fixture-style names only gives no teacher entry and no
\* student entry.
CleanPieces ==
  { MR_J_ALPHA,
    <<84, 101, 115, 116, 32, 68, 97, 116, 97, 32, 49, 48, 88, 88>> }   \* "Test Data 10XX"

CleanDetectsNothing ==
  (pc = "done" /\ \E ps \in SeqsUpTo(CleanPieces, MaxPieces) : text = JoinPieces(ps)) =>
    \A e \in Entries : ~IsNameKey(e[1])

\* C9: every form code of the mapping is mapped to its own digits, in
\* order, followed by one 'X' per letter.
FormCodeKeepsDigits ==
  pc = "done" =>
    \A e \in Entries :
      ~IsNameKey(e[1]) =>
        /\ Len(e[2]) = Len(e[1])
        /\ \A p \in 1..Len(e[1]) :
             /\ e[1][p] \in DIGIT => e[2][p] = e[1][p]
             /\ e[1][p] \in UPPER => e[2][p] = 88

\* a form code captured next to a student name and a standalone one
FormCodeKeepsDigitsWitness ==
  /\ pc = "done"
  /\ <<FORM_10AB, FORM_10XX>> \in Entries
  /\ <<FORM_9ABX, FORM_9XXX>> \in Entries

\* C10: every string a generator call returned is in the registry, and no
\* string was returned by two calls.
ReturnedOnceAndRegistered ==
  \A s \in BagToSet(returned) : s \in used_names /\ CopiesIn(s, returned) = 1


\* one detection that writes the mapping: the key, the value written for it
\* and the name the generator issued for it (none for a form code)
Detection(original, replacement, issued) ==
  [original |-> original, replacement |-> replacement, issued |-> issued]

\* the teacher loop's body, keeping the detections instead of the mapping
TeacherDetections(st, match) ==
  LET original == WithSpace(match.title, WithSpace(match.initial, match.surname))
  IN  IF Lower(match.surname) \notin STOPLIST
      THEN LET r == generate_teacher_name(match.title,
                                          WithSpace(match.initial, match.surname),
                                          st.used_names, st.counter)
               fake_parts == SplitFirst(r.result)
           IN  [log |->
                  IF Len(fake_parts) = 2
                  THEN Append(st.log,
                         Detection(original,
                                   WithSpace(match.title,
                                             WithSpace(match.initial, fake_parts[2])),
                                   {r.result}))
                  ELSE st.log,
                used_names |-> r.used_names, counter |-> r.counter]
      ELSE st

\* the student loop's body: the name, then the form code next to it
StudentDetections(st, match) ==
  LET full_name == WithSpace(match.first_name, match.last_name)
      r == generate_replacement_name(full_name, st.used_names, st.counter)
  IN  [log |-> st.log \o
                 << Detection(full_name, r.result, {r.result}),
                    Detection(match.form_code, FormCodeReplacement(match.form_code), {}) >>,
       used_names |-> r.used_names, counter |-> r.counter]

\* the form-code loop's body
FormDetections(st, match) ==
  [st EXCEPT !.log = Append(@, Detection(match.form_code,
                                         FormCodeReplacement(match.form_code), {}))]

RECURSIVE DetectionsOf(_, _, _, _)
\* the detections of one pass from its n-th match on
DetectionsOf(kind, st, matches, n) ==
  IF n > Len(matches) THEN st
  ELSE LET st2 == CASE kind = "teacher" -> TeacherDetections(st, matches[n])
                    [] kind = "student" -> StudentDetections(st, matches[n])
                    [] kind = "form"    -> FormDetections(st, matches[n])
       IN  IF Len(st2.log) >= 0 THEN DetectionsOf(kind, st2, matches, n + 1) ELSE st2

\* the detections of one run in the order they are made: the teacher pass,
\* the student pass, the form-code pass
DetectionLog(t) ==
  LET st0 == [log |-> <<>>, used_names |-> {},
              counter |-> [student |-> 0, teacher |-> 0]]
      st1 == DetectionsOf("teacher", st0, FindIter("teacher", t, 1), 1)
      st2 == DetectionsOf("student", st1, FindIter("student", t, 1), 1)
  IN  DetectionsOf("form", st2, FindIter("form", t, 1), 1).log

\* the mapping has one entry per detected original, holding the value written
\* by the last detection of that original
MappingKeepsLastDetection ==
  pc = "done" =>
    LET log == DetectionLog(text)
    IN  /\ \A i, j \in 1..Len(replacements) :
             replacements[i][1] = replacements[j][1] => i = j
        /\ {e[1] : e \in Entries} = {log[n].original : n \in 1..Len(log)}
        /\ \A e \in Entries :
             \E n \in 1..Len(log) :
               /\ log[n].original = e[1]
               /\ log[n].replacement = e[2]
               /\ \A m \in (n + 1)..Len(log) : log[m].original # e[1]

\* the name issued for a detection that a later detection of the same
\* original overwrote is in the registry at the end of the run
EarlierIssuesStayRegistered ==
  pc = "done" =>
    LET log == DetectionLog(text)
    IN  \A n \in 1..Len(log) :
          (\E m \in (n + 1)..Len(log) : log[m].original = log[n].original) =>
            log[n].issued \subseteq used_names

\* C11: an original detected more than once in one run has one entry in the
\* mapping, with the replacement of its last detection, and the names
\* generated for its earlier detections are still in the registry.
LastWriteWins == MappingKeepsLastDetection /\ EarlierIssuesStayRegistered

\* old in s, for two strings
Occurs(s, old) ==
  \/ old = <<>>
  \/ \E q \in 1..(Len(s) - Len(old) + 1) :
       s[q] = old[1] /\ SubSeq(s, q, q + Len(old) - 1) = old

\* the strings the loop body searches the text for, over all entries of m
SearchForms(m) ==
  UNION { LET passes == Passes(m[j][1], m[j][2])
          IN  {passes[n][1] : n \in 1..Len(passes)} : j \in 1..Len(m) }

NoSearchFormOccurs == \A old \in SearchForms(replacements) : ~Occurs(content, old)

\* C12: when no search form of any entry of the mapping occurs in the
\* content, anonymize_text_content returns the content, byte for byte, and
\* leaves the mapping (and the content) as it was given.
UnrelatedBytesKept ==
  [][(pc = "start" /\ NoSearchFormOccurs) =>
       /\ result' = content
       /\ replacements' = replacements
       /\ content' = content]_vars

\* a call with a mapping of two entries on a content that holds a teacher
\* name the mapping does not have and the bytes 0 and 255
UnrelatedBytesKeptWitness ==
  /\ pc = "done"
  /\ Len(replacements) = 2
  /\ NoSearchFormOccurs
  /\ Occurs(content, MR_J_SMITH) /\ Occurs(content, OPERATORS)
  /\ result = content
====
